---- MODULE Spec2Model ----
\* Model of rcir::find_winners (src/rcir/src/lib.rs): ranked-choice
\* instant-runoff tabulation over a candidate -> voters map whose buckets
\* hold ballot iterators.
EXTENDS Integers, Sequences, FiniteSets

\* ------------------------------------------------------------------ bounds

\* Candidate identifiers are 0 .. NumCandidates - 1.
NumCandidates == 3
\* The size of the whole input: every ballot counts one plus the number of
\* candidates it ranks (the calls of next() its iterator can answer).
MaxInput == 10
\* The same two bounds of the specification SpecWide: one more candidate, so
\* that a candidate nobody ranks first can stand next to an elimination.
WideNumCandidates == 4
WideMaxInput == 9
\* The size of the input of the specification FairSpec.
FairMaxInput == 9

\* The ballots of n candidates the input iterator may yield: any finite
\* candidate sequence, possibly empty, possibly naming a candidate twice.
Rankings(numCandidates, n) == [1 .. n -> 0 .. (numCandidates - 1)]

RECURSIVE InputSize(_)
InputSize(bs) == IF bs = << >> THEN 0 ELSE 1 + Len(Head(bs)) + InputSize(Tail(bs))

\* ------------------------------------------------------------------ state

VARIABLES
    ballots,          \* the ballots read so far from `ballots`; ballots[i] is the i-th
    cursor,           \* cursor[i]: candidates already pulled from ballot i's iterator
    depleted,         \* ballots whose iterator has returned None from next()
    voter_map,        \* HashMap<C, Vec<B::IntoIter>>: candidate -> ballot ids
    worst_candidates, \* Vec<(C, Vec<B::IntoIter>)> drained and not yet redistributed
    winners,          \* the returned Vec<C>
    rounds,           \* iterations of `loop` entered so far
    pc                \* position in find_winners

vars == <<ballots, cursor, depleted, voter_map, worst_candidates, winners, rounds, pc>>

\* --------------------------------------------------------------- helpers

\* Option<T>
None == << >>
Some(v) == <<v>>

EmptyMap == [c \in {} |-> << >>]

\* All the orders in which an iteration over a HashMap (or a Vec collected
\* from one) may present the members of S.
Orders(S) == {o \in [1 .. Cardinality(S) -> S] : \A i, j \in 1 .. Cardinality(S) : o[i] = o[j] => i = j}

Range(s) == {s[i] : i \in 1 .. Len(s)}

\* voter_map.values().map(|voters| voters.len()), as the set of its values
VoteCounts(map) == {Len(map[c]) : c \in DOMAIN map}

\* Mutant of IterMax: an empty iterator answers a count of zero.
IterMaxOrZero(S) == IF S = {} THEN Some(0) ELSE Some(CHOOSE m \in S : \A x \in S : x <= m)

\* Mutant of IterMin: an empty iterator answers a count of zero.
IterMinOrZero(S) == IF S = {} THEN Some(0) ELSE Some(CHOOSE m \in S : \A x \in S : m <= x)

\* Iterator::max / Iterator::min
IterMax(S) == IF S = {} THEN None ELSE Some(CHOOSE m \in S : \A x \in S : x <= m)
IterMin(S) == IF S = {} THEN None ELSE Some(CHOOSE m \in S : \A x \in S : m <= x)

\* votecounts.sum()
RECURSIVE SumCounts(_, _)
SumCounts(map, keys) ==
    IF keys = {} THEN 0
    ELSE LET c == CHOOSE k \in keys : TRUE
         IN Len(map[c]) + SumCounts(map, keys \ {c})

TotalVotecount(map) == SumCounts(map, DOMAIN map)

\* voter_map.entry(candidate).or_default().push(ballot)
EntryPush(map, candidate, id) ==
    IF candidate \in DOMAIN map
    THEN [map EXCEPT ![candidate] = Append(@, id)]
    ELSE [k \in DOMAIN map \cup {candidate} |-> IF k = candidate THEN <<id>> ELSE map[k]]

\* Mutant of HasMajority: exactly half of the votes counts as a majority.
HasMajorityOrHalf(best_votecount, total_votecount) == 2 * best_votecount >= total_votecount

\* best_votecount > total_votecount / 2
HasMajority(best_votecount, total_votecount) == best_votecount > total_votecount \div 2

\* Mutant of AllTied: the comparison is not strict enough.
AllTiedOrNot(best_votecount, worst_votecount) == best_votecount >= worst_votecount

\* best_votecount == worst_votecount
AllTied(best_votecount, worst_votecount) == best_votecount = worst_votecount

\* Mutant of ShouldDrain: the predicate is inverted (what retain() would take).
ShouldDrainInverted(voters, worst_votecount) == Len(voters) # worst_votecount

\* Mutant of ShouldDrain: `<` in place of `==`, which matches no entry.
ShouldDrainBelow(voters, worst_votecount) == Len(voters) < worst_votecount

\* |(_candidate, voters)| voters.len() == worst_votecount
ShouldDrain(voters, worst_votecount) == Len(voters) = worst_votecount

\* Mutant of hash_map_drain_filter: only the first entry that satisfies the
\* predicate, in the map's iteration order, leaves the map.
hash_map_drain_first(map, worst_votecount) ==
    LET drained == {c \in DOMAIN map : Len(map[c]) = worst_votecount}
    IN {[vec |-> <<[candidate |-> c, voters |-> map[c]]>>,
         map |-> [k \in DOMAIN map \ {c} |-> map[k]]] : c \in drained}

\* hash_map_drain_filter: the entries that satisfy the predicate leave the map
\* and are returned as a Vec in the map's iteration order; the others stay.
hash_map_drain_filter(map, worst_votecount) ==
    LET drained == {c \in DOMAIN map : ShouldDrain(map[c], worst_votecount)}
        kept == DOMAIN map \ drained
    IN {[vec |-> [i \in 1 .. Len(o) |-> [candidate |-> o[i], voters |-> map[o[i]]]],
         map |-> [c \in kept |-> map[c]]] : o \in Orders(drained)}

\* Mutant of Transfer: the target's bucket is taken with entry().or_default(),
\* so a candidate that is not a key of the map gets a new entry.
TransferOrInsert(map, ballot, cur, id) ==
    IF cur >= Len(ballot)
    THEN [map |-> map, cursor |-> cur, none |-> TRUE]
    ELSE [map |-> EntryPush(map, ballot[cur + 1], id), cursor |-> cur + 1, none |-> FALSE]

\* Mutant of Transfer: the `break` after the push is missing.
RECURSIVE TransferNoBreak(_, _, _, _)
TransferNoBreak(map, ballot, cur, id) ==
    IF cur >= Len(ballot)
    THEN [map |-> map, cursor |-> cur, none |-> TRUE]
    ELSE LET target == ballot[cur + 1]
         IN IF target \in DOMAIN map
            THEN TransferNoBreak([map EXCEPT ![target] = Append(@, id)], ballot, cur + 1, id)
            ELSE TransferNoBreak(map, ballot, cur + 1, id)

\* Mutant of Transfer: `if let` in place of `while let`, so that only the
\* next candidate of the ballot is tried.
TransferOnce(map, ballot, cur, id) ==
    IF cur >= Len(ballot)
    THEN [map |-> map, cursor |-> cur, none |-> TRUE]
    ELSE LET target == ballot[cur + 1]
         IN IF target \in DOMAIN map
            THEN [map |-> [map EXCEPT ![target] = Append(@, id)],
                  cursor |-> cur + 1, none |-> FALSE]
            ELSE [map |-> map, cursor |-> cur + 1, none |-> FALSE]

\* while let Some(target) = ballot.next() { if let Some(voters) =
\* voter_map.get_mut(&target) { voters.push(ballot); break; } }
\* for the iterator of `ballot` standing at `cur`; none: next() returned None.
RECURSIVE Transfer(_, _, _, _)
Transfer(map, ballot, cur, id) ==
    IF cur >= Len(ballot)
    THEN [map |-> map, cursor |-> cur, none |-> TRUE]
    ELSE LET target == ballot[cur + 1]
         IN IF target \in DOMAIN map
            THEN [map |-> [map EXCEPT ![target] = Append(@, id)],
                  cursor |-> cur + 1, none |-> FALSE]
            ELSE Transfer(map, ballot, cur + 1, id)

\* --------------------------------------------------------------- actions

Init ==
    /\ ballots = << >>
    /\ cursor = << >>
    /\ depleted = {}
    /\ voter_map = EmptyMap
    /\ worst_candidates = << >>
    /\ winners = << >>
    /\ rounds = 0
    /\ pc = "read"

\* One iteration of `for ballot in ballots` (the input yields any ballot).
ReadBallot(numCandidates, maxInput) ==
    /\ pc = "read"
    /\ InputSize(ballots) < maxInput
    /\ \E n \in 0 .. (maxInput - InputSize(ballots) - 1) :
       \E ballot \in Rankings(numCandidates, n) :
        LET id == Len(ballots) + 1
        IN /\ ballots' = Append(ballots, ballot)
           /\ IF ballot # << >>
              THEN /\ cursor' = Append(cursor, 1)
                   /\ voter_map' = EntryPush(voter_map, ballot[1], id)
                   /\ depleted' = depleted
              ELSE /\ cursor' = Append(cursor, 0)
                   /\ depleted' = depleted \cup {id}
                   /\ voter_map' = voter_map
    /\ UNCHANGED <<worst_candidates, winners, rounds, pc>>

\* The input iterator ends; control reaches `loop`.
EndOfBallots ==
    /\ pc = "read"
    /\ pc' = "round"
    /\ UNCHANGED <<ballots, cursor, depleted, voter_map, worst_candidates, winners, rounds>>

BestVotecount == IterMax(VoteCounts(voter_map))
WorstVotecount == IterMin(VoteCounts(voter_map))

\* match (best_votecount, worst_votecount): the (None, None) and the
\* unreachable!() arms. Every return moves voter_map into the result; the
\* model keeps it as it stood in the final round.
ReturnEmpty ==
    /\ pc = "round"
    /\ ~(BestVotecount # None /\ WorstVotecount # None)
    /\ rounds' = rounds + 1
    /\ pc' = IF BestVotecount = None /\ WorstVotecount = None
             THEN "ret_empty" ELSE "panic_unreachable"
    /\ winners' = << >>
    /\ UNCHANGED <<ballots, cursor, depleted, voter_map, worst_candidates>>

\* A candidate has the remaining majority: return a single winner, the first
\* entry in the map's iteration order that holds the best vote count. A second
\* such entry fails the debug_assert!() where debug assertions are compiled in
\* and goes unnoticed where they are not.
ReturnMajority ==
    /\ pc = "round"
    /\ BestVotecount # None /\ WorstVotecount # None
    /\ HasMajority(BestVotecount[1], TotalVotecount(voter_map))
    /\ rounds' = rounds + 1
    /\ LET best == {c \in DOMAIN voter_map : Len(voter_map[c]) = BestVotecount[1]}
       IN IF best = {}
          THEN pc' = "panic_expect" /\ winners' = << >>
          ELSE \E winner \in best :
               \E end \in (IF best = {winner} THEN {"ret_majority"}
                            ELSE {"ret_majority", "panic_debug_assert"}) :
                  /\ pc' = end
                  /\ winners' = IF end = "ret_majority" THEN <<winner>> ELSE << >>
    /\ UNCHANGED <<ballots, cursor, depleted, voter_map, worst_candidates>>

\* All the remaining candidates are tied: return all of them.
ReturnTie ==
    /\ pc = "round"
    /\ BestVotecount # None /\ WorstVotecount # None
    /\ ~HasMajority(BestVotecount[1], TotalVotecount(voter_map))
    /\ AllTied(BestVotecount[1], WorstVotecount[1])
    /\ rounds' = rounds + 1
    /\ \E o \in Orders(DOMAIN voter_map) : winners' = o
    /\ pc' = "ret_tie"
    /\ UNCHANGED <<ballots, cursor, depleted, voter_map, worst_candidates>>

\* Nobody has won yet: drain all the candidates tied for worst.
Eliminate ==
    /\ pc = "round"
    /\ BestVotecount # None /\ WorstVotecount # None
    /\ ~HasMajority(BestVotecount[1], TotalVotecount(voter_map))
    /\ ~AllTied(BestVotecount[1], WorstVotecount[1])
    /\ rounds' = rounds + 1
    /\ \E d \in hash_map_drain_filter(voter_map, WorstVotecount[1]) :
        /\ worst_candidates' = d.vec
        /\ voter_map' = d.map
    /\ pc' = "redistribute"
    /\ UNCHANGED <<ballots, cursor, depleted, winners>>

\* One iteration of `for mut ballot in voters`.
RedistributeBallot ==
    /\ pc = "redistribute"
    /\ worst_candidates # << >>
    /\ Head(worst_candidates).voters # << >>
    /\ LET id == Head(Head(worst_candidates).voters)
           t == Transfer(voter_map, ballots[id], cursor[id], id)
       IN /\ voter_map' = t.map
          /\ cursor' = [cursor EXCEPT ![id] = t.cursor]
          /\ depleted' = IF t.none THEN depleted \cup {id} ELSE depleted
    /\ worst_candidates' = [worst_candidates EXCEPT ![1].voters = Tail(@)]
    /\ UNCHANGED <<ballots, winners, rounds, pc>>

\* `for (_candidate, voters) in worst_candidates`: this entry's voters are done.
NextWorstCandidate ==
    /\ pc = "redistribute"
    /\ worst_candidates # << >>
    /\ Head(worst_candidates).voters = << >>
    /\ worst_candidates' = Tail(worst_candidates)
    /\ UNCHANGED <<ballots, cursor, depleted, voter_map, winners, rounds, pc>>

\* The end of the body of `loop`: back to its top.
EndRedistribution ==
    /\ pc = "redistribute"
    /\ worst_candidates = << >>
    /\ pc' = "round"
    /\ UNCHANGED <<ballots, cursor, depleted, voter_map, worst_candidates, winners, rounds>>

\* Every step of find_winners but the reading of a ballot.
Tabulate ==
    \/ EndOfBallots
    \/ ReturnEmpty
    \/ ReturnMajority
    \/ ReturnTie
    \/ Eliminate
    \/ RedistributeBallot
    \/ NextWorstCandidate
    \/ EndRedistribution

Next == ReadBallot(NumCandidates, MaxInput) \/ Tabulate

NextWide == ReadBallot(WideNumCandidates, WideMaxInput) \/ Tabulate

NextFair == ReadBallot(NumCandidates, FairMaxInput) \/ Tabulate

\* find_winners is one synchronous call over a finite input: once entered it
\* keeps taking steps until it returns.
FairSpec == Init /\ [][NextFair]_vars /\ WF_vars(NextFair)

Spec == Init /\ [][Next]_vars

SpecWide == Init /\ [][NextWide]_vars

Returned == pc \in {"ret_empty", "ret_majority", "ret_tie"}
Panicked == pc \in {"panic_unreachable", "panic_expect", "panic_debug_assert"}

\* ------------------------------------------------- vocabulary of the claims

SetMax(S) == CHOOSE m \in S : \A x \in S : x <= m
SetMin(S) == CHOOSE m \in S : \A x \in S : m <= x

Active == DOMAIN voter_map

\* The candidates that stand first on some ballot read so far.
FirstChoices == {ballots[i][1] : i \in {j \in 1 .. Len(ballots) : ballots[j] # << >>}}

\* The candidates that were active once and are no longer.
Eliminated == FirstChoices \ Active

\* The first candidate of a ranking that is in `active`, if any.
FirstActive(ranking, active) ==
    LET at == {j \in 1 .. Len(ranking) : ranking[j] \in active}
    IN IF at = {} THEN None ELSE Some(ranking[SetMin(at)])

\* How often ballot i stands in a voter list.
Occurrences(i, voters) == Cardinality({k \in 1 .. Len(voters) : voters[k] = i})

RECURSIVE DrainedVotes(_)
DrainedVotes(entries) ==
    IF entries = << >> THEN 0 ELSE Len(Head(entries).voters) + DrainedVotes(Tail(entries))

\* The voter records held anywhere: in the map or drained and waiting.
InFlight == TotalVotecount(voter_map) + DrainedVotes(worst_candidates)

\* No ballot has been through a redistribution yet.
NothingRedistributed ==
    /\ depleted = {i \in 1 .. Len(ballots) : ballots[i] = << >>}
    /\ \A i \in 1 .. Len(ballots) : cursor[i] <= 1

\* Ballot i has been through a redistribution.
Redistributed(i) == ballots[i] # << >> /\ (cursor[i] >= 2 \/ i \in depleted)

\* ------------------------------------------------------------------ claims

\* C1: a round returns the single majority winner only when the best vote
\* count is strictly more than half of the round's total (2 * best > total);
\* when the best candidate holds exactly half, the round returns no single
\* winner and goes on to the tie check or the elimination.
C1_MajorityNeedsMoreThanHalf ==
    [][(pc = "round" /\ Active # {}) =>
        LET best == SetMax(VoteCounts(voter_map))
            total == TotalVotecount(voter_map)
        IN /\ pc' = "ret_majority" => 2 * best > total
           /\ 2 * best = total => pc' \in {"ret_tie", "redistribute"}]_vars

\* C1 witness: the best candidate held exactly half of the votes, no winner
\* was returned and the worst candidates have just been drained.
C1_Witness ==
    /\ pc = "redistribute"
    /\ NothingRedistributed
    /\ 2 * SetMax(VoteCounts(voter_map)) = InFlight

\* C2: the result is empty, one candidate, or two or more distinct candidates;
\* in the last case they are exactly the candidates active in the final round
\* and all hold the same vote count. The tie branch never returns one candidate.
C2_ResultShape ==
    Returned =>
        /\ \A i, j \in 1 .. Len(winners) : winners[i] = winners[j] => i = j
        /\ Len(winners) >= 2 =>
              /\ Range(winners) = Active
              /\ \A c, d \in Active : Len(voter_map[c]) = Len(voter_map[d])
        /\ pc = "ret_tie" => Len(winners) >= 2

\* C2 witness: a tie of two or more candidates returned after an elimination.
C2_Witness == pc = "ret_tie" /\ Len(winners) >= 2 /\ rounds >= 2

AllEmpty == \A i \in 1 .. Len(ballots) : ballots[i] = << >>

\* C3: with no ballots, or only empty ballots, the result is empty; an empty
\* ballot never enters the candidate -> voters map, and an empty map at the
\* start of a round yields the empty winner list.
C3_EmptyInput ==
    /\ \A c \in Active : \A k \in 1 .. Len(voter_map[c]) : ballots[voter_map[c][k]] # << >>
    /\ AllEmpty => voter_map = EmptyMap
    /\ (AllEmpty /\ pc # "read") => (pc \in {"round", "ret_empty"} /\ winners = << >>)
    /\ (Active = {} /\ pc \notin {"read", "round"}) => (pc = "ret_empty" /\ winners = << >>)

\* C3 witness: two ballots, both empty, and the empty result returned.
C3_Witness == pc = "ret_empty" /\ Len(ballots) = 2 /\ AllEmpty /\ winners = << >>

\* C4: a candidate that is first on no ballot never becomes active and never
\* wins: the keys of the voter map are always first-choice candidates, after
\* the map is built they only shrink, and redistribution appends only to a
\* candidate that is already a key.
C4_OnlyFirstChoicesActive ==
    /\ [](Active \subseteq FirstChoices /\ Range(winners) \subseteq FirstChoices)
    /\ [][pc # "read" => DOMAIN voter_map' \subseteq DOMAIN voter_map]_vars

\* C4 witness: a winner is returned after a redistributed ballot went past a
\* candidate that nobody ranks first.
C4_Witness ==
    /\ pc = "ret_majority"
    /\ \E i \in 1 .. Len(ballots) :
          /\ Redistributed(i)
          /\ \E j \in 2 .. cursor[i] : ballots[i][j] \notin FirstChoices

\* The input as a multiset: how many ballots carry each ranking.
BallotBag == [r \in Range(ballots) |-> Cardinality({i \in 1 .. Len(ballots) : ballots[i] = r})]

RECURSIVE BagCount(_, _)
BagCount(bag, rs) ==
    IF rs = {} THEN 0
    ELSE LET r == CHOOSE q \in rs : TRUE IN bag[r] + BagCount(bag, rs \ {r})

\* The ballots of the bag that count for candidate c among `active`.
Tally(bag, active, c) == BagCount(bag, {r \in DOMAIN bag : FirstActive(r, active) = Some(c)})

\* Instant runoff with simultaneous elimination, told of the multiset alone.
RECURSIVE Runoff(_, _)
Runoff(bag, active) ==
    IF active = {} THEN {}
    ELSE LET count == [c \in active |-> Tally(bag, active, c)]
             best == SetMax({count[c] : c \in active})
             worst == SetMin({count[c] : c \in active})
             total == BagCount(bag, {r \in DOMAIN bag : FirstActive(r, active) # None})
         IN IF 2 * best > total THEN {c \in active : count[c] = best}
            ELSE IF best = worst THEN active
            ELSE Runoff(bag, {c \in active : count[c] # worst})

ExpectedWinners(bag) == Runoff(bag, {r[1] : r \in {q \in DOMAIN bag : q # << >>}})

\* C5: the set of winners is a function of the multiset of input ballots: it
\* is the same for every order of the input, every iteration order of the map
\* and every order in which the drained voter lists are redistributed.
C5_WinnersDependOnBagOnly == Returned => Range(winners) = ExpectedWinners(BallotBag)

\* C5 witness: a winner returned after two candidates were eliminated and a
\* ballot was transferred to a candidate that was still active.
C5_Witness ==
    /\ pc = "ret_majority"
    /\ Cardinality(Eliminated) >= 2
    /\ \E i \in 1 .. Len(ballots) : Redistributed(i) /\ i \notin depleted

\* The number of distinct first-choice candidates in the map after initialization.
InitialCandidateCount == Cardinality(FirstChoices)

\* C6 as stated: the loop returns within at most (initial candidate count) rounds.
C6_Original == pc # "read" => rounds <= InitialCandidateCount

\* C6 as amended: find_winners terminates; a round that does not return
\* removes at least one active candidate and keeps at least one, and the loop
\* returns within at most max(1, initial candidate count) rounds.
C6_Terminates ==
    /\ <>Returned
    /\ [](pc # "read" => rounds <= SetMax({1, InitialCandidateCount}))
    /\ [][(pc = "round" /\ pc' = "redistribute") =>
            /\ DOMAIN voter_map' \subseteq DOMAIN voter_map
            /\ DOMAIN voter_map' # DOMAIN voter_map]_vars
    /\ [][pc = "redistribute" => DOMAIN voter_map' = DOMAIN voter_map]_vars

\* C6 witness: the result returned in the second round, after a round that
\* eliminated candidates.
C6_Witness == Returned /\ rounds = 2 /\ Eliminated # {}

\* C7: next() is called on a ballot once when it is read, and afterwards only
\* while that ballot is redistributed because its candidate was eliminated,
\* stopping at the first candidate that is still active; a non-empty ballot is
\* polled to exhaustion only when it is redistributed and none of its remaining
\* candidates is active.
C7_PulledOnlyAsNeeded ==
    [][\A i \in 1 .. Len(ballots') :
        IF i > Len(ballots)
        THEN /\ cursor'[i] = (IF ballots'[i] = << >> THEN 0 ELSE 1)
             /\ i \in depleted' <=> ballots'[i] = << >>
        ELSE (cursor'[i] # cursor[i] \/ (i \in depleted') # (i \in depleted)) =>
             /\ pc = "redistribute"
             /\ worst_candidates # << >>
             /\ Head(worst_candidates).voters # << >>
             /\ i = Head(Head(worst_candidates).voters)
             /\ ballots[i][cursor[i]] \notin DOMAIN voter_map
             /\ LET rest == {j \in (cursor[i] + 1) .. Len(ballots[i]) :
                                ballots[i][j] \in DOMAIN voter_map}
                IN IF rest = {}
                   THEN cursor'[i] = Len(ballots[i]) /\ i \in depleted'
                   ELSE cursor'[i] = SetMin(rest) /\ i \notin depleted']_vars

\* C7 witness: at the return one ballot still stands at its first candidate
\* with candidates left unread, another was advanced to an active candidate
\* when its own was eliminated, and a third was polled to exhaustion.
C7_Witness ==
    /\ Returned
    /\ \E i \in 1 .. Len(ballots) : cursor[i] = 1 /\ Len(ballots[i]) >= 2 /\ i \notin depleted
    /\ \E i \in 1 .. Len(ballots) : cursor[i] >= 2 /\ i \notin depleted
    /\ \E i \in 1 .. Len(ballots) : Redistributed(i) /\ i \in depleted

\* C8: no panic is reachable - not the unreachable!() arm, not the expect()
\* and not the debug_assert!() - and whenever the majority branch returns,
\* exactly one active candidate holds the best vote count.
C8_NoPanic ==
    /\ ~Panicked
    /\ pc = "ret_majority" =>
          Cardinality({c \in Active : Len(voter_map[c]) = SetMax(VoteCounts(voter_map))}) = 1

\* C8 witness: the majority branch returned its winner out of two active candidates.
C8_Witness == pc = "ret_majority" /\ Cardinality(Active) = 2 /\ Len(winners) = 1

\* C9: an elimination removes exactly the active candidates whose vote count
\* is the worst one, all of them before any ballot is redistributed, and keeps
\* every other candidate with its voters; a redistributed ballot never goes to
\* a candidate eliminated in this or an earlier round.
C9_WorstEliminatedTogether ==
    /\ [][(pc = "round" /\ pc' = "redistribute") =>
            LET worst == SetMin(VoteCounts(voter_map))
                out == {c \in DOMAIN voter_map : Len(voter_map[c]) = worst}
            IN /\ DOMAIN voter_map' = DOMAIN voter_map \ out
               /\ \A c \in DOMAIN voter_map' : voter_map'[c] = voter_map[c]
               /\ {worst_candidates'[k].candidate : k \in 1 .. Len(worst_candidates')} = out
               /\ \A k \in 1 .. Len(worst_candidates') :
                     worst_candidates'[k].voters = voter_map[worst_candidates'[k].candidate]
               /\ cursor' = cursor /\ depleted' = depleted]_vars
    /\ [][pc = "redistribute" =>
            /\ \A k \in 1 .. Len(worst_candidates) :
                  worst_candidates[k].candidate \notin DOMAIN voter_map'
            /\ \A c \in Eliminated : c \notin DOMAIN voter_map'
            /\ \A c \in DOMAIN voter_map' : \A k \in 1 .. Len(voter_map'[c]) :
                  LET i == voter_map'[c][k] IN ballots[i][cursor'[i]] = c]_vars

\* C9 witness: the first elimination removed two candidates together and a
\* ballot of one of them skipped the other on its way.
C9_Witness ==
    /\ pc = "round"
    /\ rounds = 1
    /\ Cardinality(Eliminated) >= 2
    /\ \E i \in 1 .. Len(ballots) :
          /\ Redistributed(i)
          /\ Len(ballots[i]) >= 2
          /\ ballots[i][2] \in Eliminated \ {ballots[i][1]}

\* The ballots that still rank an active candidate.
Alive == {i \in 1 .. Len(ballots) : FirstActive(ballots[i], Active) # None}

\* C10: at the start of every round each ballot stands in at most one voter
\* list, in the list of c exactly when c is the first active candidate of its
\* ranking, and in no list when it ranks no active candidate; total_votecount
\* is the number of ballots that rank an active candidate, and the votes held
\* never increase once the map is built.
C10_OneListPerBallot ==
    /\ [](pc = "round" =>
            /\ \A i \in 1 .. Len(ballots) : \A c \in Active :
                  Occurrences(i, voter_map[c]) =
                      (IF FirstActive(ballots[i], Active) = Some(c) THEN 1 ELSE 0)
            /\ \A c \in Active : Range(voter_map[c]) \subseteq 1 .. Len(ballots)
            /\ TotalVotecount(voter_map) = Cardinality(Alive))
    /\ [][pc # "read" =>
            TotalVotecount(voter_map') + DrainedVotes(worst_candidates') <= InFlight]_vars

\* C10 witness: at the start of the second round one ballot has passed over
\* two eliminated candidates to an active one and another was exhausted, so
\* that fewer votes are counted than in the first round.
C10_Witness ==
    /\ pc = "round"
    /\ rounds = 1
    /\ \E i \in 1 .. Len(ballots) : cursor[i] >= 3 /\ i \notin depleted
    /\ \E i \in 1 .. Len(ballots) : Redistributed(i) /\ i \in depleted
    /\ TotalVotecount(voter_map) < Cardinality({i \in 1 .. Len(ballots) : ballots[i] # << >>})

====
